---- MODULE Spec2Model ----
(***************************************************************************)
(* 3D Fashion Studio: the root view (App) and the scene component          *)
(* (ModelViewer) in its two variants:                                      *)
(*   "glb"  App holds color/outfit/rotation/error, ModelViewer receives    *)
(*          them as props together with setError and loads mannequin.glb;  *)
(*   "act"  the glb ModelViewer written by act.sh, whose catch block only  *)
(*          logs, under an App that holds no error state;                  *)
(*   "stl"  ModelViewer holds color/rotation/outfit itself, drives them    *)
(*          from a dat.gui panel and loads mannequin.stl.                  *)
(* Two more programs of the repository have a specification of their own:  *)
(*   SpecDebug   the DebugScene component under the App that renders it,   *)
(*               with its per-frame callback (IEEE double arithmetic);     *)
(*   SpecScript  the first script of act.sh, command by command.           *)
(* The asset loader hooks (useGLTF, useLoader, useTexture) follow the      *)
(* Suspense protocol: a hook returns the cached result of a settled load,  *)
(* throws the pending promise of a load in flight (starting the load when  *)
(* there is none), and throws the Error of a rejected load.                *)
(* Angles are fixed-point, in micro-radians.                               *)
(***************************************************************************)
EXTENDS Integers, Sequences, FiniteSets, TLC

VARIABLES
  variant,        \* which ModelViewer.jsx is installed: "glb", "act" or "stl"
  setErrorProp,   \* the installed App.jsx passes setError to ModelViewer
  streak,         \* renders since the last user input or page load
  color,          \* useState('#ff6b6b')
  outfit,         \* useState(1)
  rotation,       \* useState(false)
  error,          \* useState(null) of App (glb variant)
  dirty,          \* a render of the component tree is scheduled
  cache,          \* loader cache: path -> "none" | "pending" | "loaded" | "failed"
  hasScene,       \* the parsed glTF has a scene (gltf.scene is defined)
  scene,          \* the scene graph object cached by the GLTF loader
  gui,            \* number of live dat.gui panels (stl variant)
  output,         \* what the Canvas shows: the element last committed
  props,          \* inputs and outcome of the last ModelViewer render
  now,            \* Date.now(), in ms
  failCalls,      \* invocations of setError by renders whose load or traversal threw an Error
  everFailed,     \* some render since page load threw an Error (not a pending promise)
  cycle,          \* progress through the outfit button sequence 1 -> 2 -> 3 -> 1
  toggles,        \* clicks on the panel's rotation checkbox since mount: 0, then 1, 2, 1, 2, ...
  boxRef,         \* DebugScene: useRef() and the rotation of the mesh it points to
  frames,         \* DebugScene: frames the Canvas render loop has run
  attachedFrames, \* DebugScene: frame callbacks run with boxRef.current set, for the current mesh
  pc,             \* act.sh: the command the script is at
  exitStatus,     \* act.sh: exit status, -1 while the script runs
  textures,       \* act.sh: the files of src/assets/textures
  checked,        \* act.sh: how often the [ -f ] test looked at each texture
  warnings,       \* act.sh: warnings logged by run_command
  devStarted,     \* act.sh: npm run dev has been launched
  committed,      \* act.sh: the git commit command has been run
  installed,      \* act.sh: what node_modules holds of three-mesh-bvh
  bvhVerified     \* act.sh: outcome of the three-mesh-bvh verification

debugVars == <<boxRef, frames, attachedFrames>>
scriptVars == <<pc, exitStatus, textures, checked, warnings, devStarted, committed, installed,
                bvhVerified>>
vars == <<variant, setErrorProp, streak, color, outfit, rotation, error, dirty, cache, hasScene, scene,
          gui, output, props, now, failCalls, everFailed, cycle, toggles, debugVars, scriptVars>>

(***************************************************************************)
(* Bounds of the model                                                     *)
(***************************************************************************)
MaxFailCalls == 3   \* user inputs stop once failing renders have reported this often
MaxTicks  == 2      \* clock readings after the first
ClockStep == 7000   \* ms between two clock readings
NumNodes  == 2      \* nodes of the loaded scene graph

(***************************************************************************)
(* Values                                                                  *)
(***************************************************************************)
NULL == "null"                         \* JavaScript null
DefaultColor == "#ff6b6b"
Colors == {DefaultColor, "#00ff00"}    \* values of <input type="color">
Outfits == {1, 2, 3}
Nodes == 1..NumNodes
MaxClock == MaxTicks * ClockStep

TwoPiMicro == 6283185                  \* 2 * Math.PI, in micro-radians
PiMicro == 3141592                     \* Math.PI, in micro-radians
HalfMilli == 500                       \* 0.0005 rad per ms, in micro-radians per ms

Fabric1 == "/assets/textures/fabric1.jpg"
Fabric2 == "/assets/textures/fabric2.jpg"
Leather == "/assets/textures/leather.jpg"
GlbPath == "/assets/models/mannequin.glb"
StlPath == "/assets/models/mannequin.stl"
Paths == {GlbPath, StlPath, Fabric1, Fabric2, Leather}

ModelPath(v) == IF v = "stl" THEN StlPath ELSE GlbPath

\* the loader hooks of one render, in call order
HookOrder(v) == <<ModelPath(v), Fabric1, Fabric2, Leather>>

\* variant of Textures with the keys of fabric2 and leather exchanged
TexturesSwapped == [n \in Outfits |-> CASE n = 1 -> Fabric1 [] n = 2 -> Leather [] n = 3 -> Fabric2]

\* textures = { 1: useTexture(fabric1), 2: useTexture(fabric2), 3: useTexture(leather) }
\* a loaded texture is identified by the path it was loaded from
Textures == [n \in Outfits |-> CASE n = 1 -> Fabric1 [] n = 2 -> Fabric2 [] n = 3 -> Leather]

\* textures[outfit]: a JavaScript property lookup, undefined for a missing key
TextureFor(o) == IF o \in DOMAIN Textures THEN Textures[o] ELSE "undefined"

\* variant of MeshStandardMaterial that ignores the tint it is given
MeshStandardMaterialFixedColor(c, o) ==
  [color |-> DefaultColor, map |-> TextureFor(o), roughness |-> 4, metalness |-> 1]

\* new THREE.MeshStandardMaterial({ color, map: textures[outfit], roughness: 0.4, metalness: 0.1 })
\* roughness and metalness in tenths
MeshStandardMaterial(c, o) ==
  [color |-> c, map |-> TextureFor(o), roughness |-> 4, metalness |-> 1]

OrigMaterial == [color |-> "asset", map |-> "asset", roughness |-> 10, metalness |-> 0]
NoMaterial == [color |-> "none", map |-> "none", roughness |-> 0, metalness |-> 0]

\* a node of the glTF scene as the loader returns it
LoadedNode(m) ==
  [isMesh |-> m, material |-> IF m THEN OrigMaterial ELSE NoMaterial,
   castShadow |-> FALSE, receiveShadow |-> FALSE]

\* variant of TraverseNode that does not test isMesh
TraverseNodeAll(nd, c, o) ==
  [nd EXCEPT !.material = MeshStandardMaterial(c, o), !.castShadow = TRUE, !.receiveShadow = TRUE]

\* variant of TraverseNode that replaces only the material the asset came with
TraverseNodeOnce(nd, c, o) ==
  IF nd.isMesh /\ nd.material = OrigMaterial
    THEN [nd EXCEPT !.material = MeshStandardMaterial(c, o),
                    !.castShadow = TRUE, !.receiveShadow = TRUE]
    ELSE nd

\* the callback of scene.traverse applied to one node
TraverseNode(nd, c, o) ==
  IF nd.isMesh
    THEN [nd EXCEPT !.material = MeshStandardMaterial(c, o),
                    !.castShadow = TRUE, !.receiveShadow = TRUE]
    ELSE nd

\* scene.traverse(callback): the callback is applied to every node
Traverse(sc, c, o) == [n \in DOMAIN sc |-> TraverseNode(sc[n], c, o)]

(***************************************************************************)
(* The try block: loader hooks in call order, then the traversal           *)
(***************************************************************************)
NoThrow == [kind |-> "none", message |-> "", path |-> ""]
Promise(p) == [kind |-> "promise", message |-> "undefined", path |-> p]
LoadError(p) == [kind |-> "error", message |-> "Could not load " \o p, path |-> p]
TypeError == [kind |-> "error",
              message |-> "Cannot read properties of undefined (reading 'traverse')",
              path |-> ""]

\* index of the first hook whose asset is not loaded, 0 when all four are
FirstBlocking(v, c) ==
  LET idx == {i \in 1..4 : c[HookOrder(v)[i]] # "loaded"}
  IN IF idx = {} THEN 0 ELSE CHOOSE i \in idx : \A j \in idx : i <= j

\* what the try block throws
Thrown(v, c, hs) ==
  LET i == FirstBlocking(v, c) IN
  IF i # 0
    THEN LET p == HookOrder(v)[i]
         IN IF c[p] = "failed" THEN LoadError(p) ELSE Promise(p)
    ELSE IF v # "stl" /\ ~hs THEN TypeError ELSE NoThrow

\* variant of CacheAfter for a loader that drops a rejected load and fetches again
CacheAfterRetry(v, c) ==
  LET i == FirstBlocking(v, c) IN
  IF i # 0 /\ c[HookOrder(v)[i]] \in {"none", "failed"}
    THEN [c EXCEPT ![HookOrder(v)[i]] = "pending"]
    ELSE c

\* the loader cache after the hooks of one render: the first hook without a
\* cache entry starts its load
CacheAfter(v, c) ==
  LET i == FirstBlocking(v, c) IN
  IF i # 0 /\ c[HookOrder(v)[i]] = "none"
    THEN [c EXCEPT ![HookOrder(v)[i]] = "pending"]
    ELSE c

\* catch (e): a JavaScript catch clause catches every thrown value
Catches(e) == e.kind # "none"

\* `Failed to load model or textures: ${e.message}`
ErrorMessage(e) == "Failed to load model or textures: " \o e.message

\* variant of ErrorAfter in which a successful render clears the message
ErrorAfterClearing(e, err) == IF Catches(e) THEN ErrorMessage(e) ELSE NULL

\* the value of App's error state after one render of ModelViewer
ErrorAfter(e, err) == IF Catches(e) THEN ErrorMessage(e) ELSE err

\* variant of SetErrorCallsOf for a catch block that only logs
SetErrorCallsSilent(e) == 0

\* number of setError calls made by one render of ModelViewer
SetErrorCallsOf(e) == IF Catches(e) THEN 1 ELSE 0

(***************************************************************************)
(* Returned elements                                                       *)
(***************************************************************************)
\* variant of GroupAngleGLB that ignores the rotation flag
GroupAngleAlways(rot, t) == (t * HalfMilli) % TwoPiMicro

\* variant of GroupAngleGLB without the modulo
GroupAngleNoWrap(rot, t) == IF rot THEN t * HalfMilli ELSE 0

\* rotation ? Date.now() * 0.0005 % (2 * Math.PI) : 0
GroupAngleGLB(rot, t) == IF rot THEN (t * HalfMilli) % TwoPiMicro ELSE 0

\* variant of GroupAngleSTL that reads the clock as the glb variant does
GroupAngleSTLClock(rot) == IF rot THEN (now * HalfMilli) % TwoPiMicro ELSE 0

\* rotation ? Math.PI : 0
GroupAngleSTL(rot) == IF rot THEN PiMicro ELSE 0

Cube(material, c) == [kind |-> "cube", args |-> <<1, 1, 1>>, material |-> material, color |-> c]
HotpinkGLB == Cube("meshStandardMaterial", "hotpink")
HotpinkSTL == Cube("meshBasicMaterial", "hotpink")
GrayCube == Cube("meshStandardMaterial", "gray")
Nothing == [kind |-> "none"]
Crashed == [kind |-> "crashed"]

\* <group rotation={[0, angle, 0]}><primitive object={scene} .../></group>
ModelGLB(rot, t) ==
  [kind |-> "model", rotation |-> <<0, GroupAngleGLB(rot, t), 0>>, material |-> NoMaterial]

\* <group rotation={[0, angle, 0]}><mesh ...><meshStandardMaterial .../></mesh></group>
ModelSTL(rot, c, o) ==
  [kind |-> "model", rotation |-> <<0, GroupAngleSTL(rot), 0>>,
   material |-> MeshStandardMaterial(c, o)]

\* <Suspense fallback=...>: gray cube in the glb variant's App, null in the stl variant's
SuspenseFallback(v) == IF v = "glb" THEN GrayCube ELSE Nothing

NoProps == [color |-> "", outfit |-> 0, rotation |-> FALSE, at |-> 0, thrown |-> NoThrow, calls |-> 0]

(***************************************************************************)
(* The other programs at rest                                              *)
(***************************************************************************)
\* a double as <<hi, lo>>: the value (hi * 2^28 + lo) * 2^-59
Zero == <<0, 0>>

\* DebugScene is not rendered: no ref, no frame callback
DebugIdle ==
  /\ boxRef = [current |-> FALSE, rotation |-> [x |-> Zero, y |-> Zero]]
  /\ frames = 0
  /\ attachedFrames = 0

TextureFiles == <<"fabric1.jpg", "fabric2.jpg", "leather.jpg">>
TextureNames == {TextureFiles[i] : i \in 1..Len(TextureFiles)}

\* act.sh is not running
ScriptIdle ==
  /\ pc = "idle"
  /\ exitStatus = -1
  /\ textures = [t \in TextureNames |-> "original"]
  /\ checked = [t \in TextureNames |-> 0]
  /\ warnings = 0
  /\ devStarted = FALSE
  /\ committed = FALSE
  /\ installed = "none"
  /\ bvhVerified = "no"

\* the page of the App is not being rendered (v: the installed ModelViewer)
AppIdle(v) ==
  /\ variant = v
  /\ setErrorProp = FALSE
  /\ streak = 0
  /\ color = DefaultColor
  /\ outfit = 1
  /\ rotation = FALSE
  /\ error = NULL
  /\ dirty = FALSE
  /\ cache = [p \in Paths |-> "none"]
  /\ hasScene = TRUE
  /\ scene = [n \in Nodes |-> LoadedNode(TRUE)]
  /\ gui = 0
  /\ output = Nothing
  /\ props = NoProps
  /\ now = 0
  /\ failCalls = 0
  /\ everFailed = FALSE
  /\ cycle = 0
  /\ toggles = 0

appVars == <<variant, setErrorProp, streak, color, outfit, rotation, error, dirty, cache, hasScene,
             scene, gui, output, props, now, failCalls, everFailed, cycle, toggles>>

(***************************************************************************)
(* Init: the page has been loaded, root.render(<App />) is scheduled       *)
(***************************************************************************)
Init ==
  /\ variant \in {"glb", "act", "stl"}
  /\ setErrorProp \in BOOLEAN
  /\ (variant # "glb" => ~setErrorProp)
  /\ streak = 0
  /\ color = DefaultColor
  /\ outfit = 1
  /\ rotation = FALSE
  /\ error = NULL
  /\ dirty = TRUE
  /\ cache = [p \in Paths |-> "none"]
  /\ hasScene \in BOOLEAN
  /\ (variant = "stl" => hasScene)
  /\ \E m \in [Nodes -> BOOLEAN] :
       /\ (variant # "glb" \/ ~hasScene \/ ~setErrorProp) => (\A n \in Nodes : m[n])
       /\ scene = [n \in Nodes |-> LoadedNode(m[n])]
  /\ gui = 0
  /\ output = Nothing
  /\ props = NoProps
  /\ now = 0
  /\ failCalls = 0
  /\ everFailed = FALSE
  /\ cycle = 0
  /\ toggles = 0
  /\ DebugIdle
  /\ ScriptIdle

(***************************************************************************)
(* ModelViewer renders                                                     *)
(***************************************************************************)
\* calls: the number of times this render invoked setError
PropsOf(e, k) ==
  [color |-> color, outfit |-> outfit, rotation |-> rotation, at |-> now, thrown |-> e, calls |-> k]

\* what the Canvas commits for one render whose try block threw e (or nothing)
Committed(v, e, model) ==
  IF e.kind = "none" THEN model
  ELSE IF Catches(e) THEN (IF v = "stl" THEN HotpinkSTL ELSE HotpinkGLB)
  ELSE IF e.kind = "promise" THEN SuspenseFallback(v)
  ELSE Crashed

\* setError(...) in the catch block is a call of undefined when App passed no
\* setError: the catch block itself throws a TypeError, which nothing catches
CatchThrows(e, passed) == Catches(e) /\ ~passed

\* variant of Rerenders for a state setter that never bails out
RerendersAlways(old, new) == TRUE

\* a useState setter schedules a re-render unless the new value equals the old
Rerenders(old, new) == new # old

\* ModelViewer({ color, outfit, rotation, setError }) rendered inside App's Canvas
RenderGLB ==
  /\ variant = "glb"
  /\ dirty
  /\ output # Crashed
  /\ LET e == Thrown(variant, cache, hasScene)
         crash == CatchThrows(e, setErrorProp)
         calls == IF crash THEN 0 ELSE SetErrorCallsOf(e)
     IN
       /\ cache' = CacheAfter(variant, cache)
       /\ scene' = IF e.kind = "none" THEN Traverse(scene, color, outfit) ELSE scene
       /\ error' = IF crash THEN error ELSE ErrorAfter(e, error)
       /\ dirty' = (~crash /\ calls > 0 /\ Rerenders(error, ErrorAfter(e, error)))
       /\ output' = IF crash THEN Crashed ELSE Committed(variant, e, ModelGLB(rotation, now))
       /\ props' = PropsOf(e, calls)
       /\ failCalls' = failCalls + (IF e.kind = "error" THEN calls ELSE 0)
       /\ everFailed' = (everFailed \/ e.kind = "error")
  /\ streak' = streak + 1
  /\ UNCHANGED <<toggles, debugVars, scriptVars>>
  /\ UNCHANGED <<variant, setErrorProp, color, outfit, rotation, hasScene, gui, now, cycle>>

\* ModelViewer({ color, outfit, rotation }) as written by act.sh: the catch
\* block logs and returns the cube, no callback is involved
RenderAct ==
  /\ variant = "act"
  /\ dirty
  /\ output # Crashed
  /\ LET e == Thrown(variant, cache, hasScene) IN
       /\ cache' = CacheAfter(variant, cache)
       /\ scene' = IF e.kind = "none" THEN Traverse(scene, color, outfit) ELSE scene
       /\ output' = Committed(variant, e, ModelGLB(rotation, now))
       /\ props' = PropsOf(e, 0)
       /\ everFailed' = (everFailed \/ e.kind = "error")
  /\ dirty' = FALSE
  /\ streak' = streak + 1
  /\ UNCHANGED <<toggles, debugVars, scriptVars>>
  /\ UNCHANGED <<variant, setErrorProp, color, outfit, rotation, error, hasScene, gui,
                 now, failCalls, cycle>>

\* variant of GuiAfterCommit for an effect without dependency list and cleanup
GuiAfterEveryCommit(g, mounting) == g + 1

\* useEffect(() => { const gui = new GUI() ...; return () => gui.destroy() }, []):
\* the effect runs after the commit of the mounting render only
GuiAfterCommit(g, mounting) == IF mounting THEN g + 1 ELSE g

\* the cleanup of the effect, gui.destroy(), run when the component unmounts
GuiAfterUnmount(g) == IF g > 0 THEN g - 1 ELSE 0

\* ModelViewer() with its own state and dat.gui panel
RenderSTL ==
  /\ variant = "stl"
  /\ dirty
  /\ output # Crashed
  /\ LET e == Thrown(variant, cache, hasScene) IN
       /\ cache' = CacheAfter(variant, cache)
       /\ output' = Committed(variant, e, ModelSTL(rotation, color, outfit))
       /\ props' = PropsOf(e, 0)
       /\ gui' = IF e.kind = "none" \/ Catches(e) THEN GuiAfterCommit(gui, output = Nothing) ELSE gui
       /\ everFailed' = (everFailed \/ e.kind = "error")
  /\ dirty' = FALSE
  /\ streak' = streak + 1
  /\ UNCHANGED <<toggles, debugVars, scriptVars>>
  /\ UNCHANGED <<variant, setErrorProp, color, outfit, rotation, error, hasScene, scene, now, failCalls, cycle>>

(***************************************************************************)
(* The loader settles a pending load                                       *)
(***************************************************************************)
\* a Suspense boundary that caught the promise of p re-renders its subtree
SuspendedOn(p) ==
  /\ output = SuspenseFallback(variant)
  /\ props.thrown.kind = "promise"
  /\ props.thrown.path = p

Settle(p, ok) ==
  /\ cache[p] = "pending"
  /\ cache' = [cache EXCEPT ![p] = IF ok THEN "loaded" ELSE "failed"]
  /\ dirty' = (dirty \/ SuspendedOn(p))
  /\ UNCHANGED <<toggles, debugVars, scriptVars>>
  /\ UNCHANGED <<variant, setErrorProp, streak, color, outfit, rotation, error, hasScene, scene, gui, output,
                 props, now, failCalls, everFailed, cycle>>

(***************************************************************************)
(* Controls of App (glb and act variants)                                  *)
(***************************************************************************)
\* the tree is mounted: the first render has been committed and no render crashed
Mounted == output # Nothing /\ output # Crashed

\* the App with the color input, the outfit buttons and the checkbox
AppControls == variant \in {"glb", "act"} /\ Mounted

CycleSeq == <<1, 2, 3, 1>>

\* the previous press of the sequence has been rendered
StageShown == ~dirty /\ output.kind = "model"

CycleAfter(n) ==
  IF cycle < 4 /\ n = CycleSeq[cycle + 1] /\ (cycle = 0 \/ StageShown) THEN cycle + 1
  ELSE IF n = 1 THEN 1
  ELSE 0

\* variant of ColorInput whose handler also selects the first outfit
ColorInputResetsOutfit(c) ==
  /\ AppControls
  /\ failCalls < MaxFailCalls
  /\ c # color
  /\ color' = c
  /\ outfit' = 1
  /\ dirty' = TRUE
  /\ cycle' = 0
  /\ streak' = 0
  /\ UNCHANGED <<toggles, debugVars, scriptVars>>
  /\ UNCHANGED <<variant, setErrorProp, rotation, error, cache, hasScene, scene, gui, output,
                 props, now, failCalls, everFailed>>

\* <input type="color" value={color} onChange={(e) => setColor(e.target.value)} />
ColorInput(c) ==
  /\ AppControls
  /\ failCalls < MaxFailCalls
  /\ c # color
  /\ color' = c
  /\ dirty' = TRUE
  /\ cycle' = 0
  /\ streak' = 0
  /\ UNCHANGED <<toggles, debugVars, scriptVars>>
  /\ UNCHANGED <<variant, setErrorProp, outfit, rotation, error, cache, hasScene, scene, gui, output,
                 props, now, failCalls, everFailed>>

\* variant of OutfitButton whose handler also switches auto-rotate off
OutfitButtonStopsRotation(n) ==
  /\ AppControls
  /\ failCalls < MaxFailCalls
  /\ outfit' = n
  /\ rotation' = FALSE
  /\ dirty' = (dirty \/ n # outfit \/ rotation)
  /\ cycle' = CycleAfter(n)
  /\ streak' = 0
  /\ UNCHANGED <<toggles, debugVars, scriptVars>>
  /\ UNCHANGED <<variant, setErrorProp, color, error, cache, hasScene, scene, gui, output,
                 props, now, failCalls, everFailed>>

\* <button onClick={() => setOutfit(n)}>; a state equal to the current one schedules no render
OutfitButton(n) ==
  /\ AppControls
  /\ failCalls < MaxFailCalls
  /\ outfit' = n
  /\ dirty' = (dirty \/ n # outfit)
  /\ cycle' = CycleAfter(n)
  /\ streak' = 0
  /\ UNCHANGED <<toggles, debugVars, scriptVars>>
  /\ UNCHANGED <<variant, setErrorProp, color, rotation, error, cache, hasScene, scene, gui, output,
                 props, now, failCalls, everFailed>>

\* <input type="checkbox" checked={rotation} onChange={(e) => setRotation(e.target.checked)} />
RotateCheckbox ==
  /\ AppControls
  /\ failCalls < MaxFailCalls
  /\ rotation' = ~rotation
  /\ dirty' = TRUE
  /\ cycle' = 0
  /\ streak' = 0
  /\ UNCHANGED <<toggles, debugVars, scriptVars>>
  /\ UNCHANGED <<variant, setErrorProp, color, outfit, error, cache, hasScene, scene, gui, output,
                 props, now, failCalls, everFailed>>

(***************************************************************************)
(* Controls of the dat.gui panel (stl variant)                             *)
(***************************************************************************)
\* gui.add({ outfit }, 'outfit', 1, 3, 1): min, max, step of the number controller
OutfitMin == 1
OutfitMax == 3
OutfitStep == 1

\* positions the slider and its text box can be set to, in tenths
RawSlider == {-10, 10, 14, 15, 26, 30, 47}

\* variant of SliderValue for a controller added without min and max
SliderValueUnclamped(raw) == (raw + 5) \div 10

\* the number controller clamps the raw value to [min, max] and rounds it
\* to a multiple of step (Math.round: halves go up); raw is in tenths
SliderValue(raw) ==
  LET lo == OutfitMin * 10
      hi == OutfitMax * 10
      st == OutfitStep * 10
      clamped == IF raw < lo THEN lo ELSE IF raw > hi THEN hi ELSE raw
      stepped == IF clamped % st # 0 THEN ((2 * clamped + st) \div (2 * st)) * st ELSE clamped
  IN stepped \div 10

\* gui.addColor({ color }, 'color').onChange(setColor)
GuiColor(c) ==
  /\ variant = "stl"
  /\ gui > 0
  /\ c # color
  /\ color' = c
  /\ dirty' = TRUE
  /\ streak' = 0
  /\ UNCHANGED <<toggles, debugVars, scriptVars>>
  /\ UNCHANGED <<variant, setErrorProp, outfit, rotation, error, cache, hasScene, scene, gui, output,
                 props, now, failCalls, everFailed, cycle>>

\* the parity of the clicks on the checkbox: 0 before the first, then 1, 2, 1, 2
TogglesAfter(k) == IF k < 2 THEN k + 1 ELSE 1

\* gui.add({ rotation }, 'rotation').onChange(setRotation): a checkbox
GuiRotation ==
  /\ variant = "stl"
  /\ gui > 0
  /\ rotation' = ~rotation
  /\ toggles' = TogglesAfter(toggles)
  /\ dirty' = TRUE
  /\ streak' = 0
  /\ UNCHANGED <<debugVars, scriptVars>>
  /\ UNCHANGED <<variant, setErrorProp, color, outfit, error, cache, hasScene, scene, gui, output,
                 props, now, failCalls, everFailed, cycle>>

\* gui.add({ outfit }, 'outfit', 1, 3, 1).onChange(setOutfit)
GuiOutfit(raw) ==
  /\ variant = "stl"
  /\ gui > 0
  /\ outfit' = SliderValue(raw)
  /\ dirty' = (dirty \/ SliderValue(raw) # outfit)
  /\ streak' = 0
  /\ UNCHANGED <<toggles, debugVars, scriptVars>>
  /\ UNCHANGED <<variant, setErrorProp, color, rotation, error, cache, hasScene, scene, gui, output,
                 props, now, failCalls, everFailed, cycle>>

(***************************************************************************)
(* Clock and page reload                                                   *)
(***************************************************************************)
\* the angle of the group the Canvas render loop draws in a frame: the one
\* the last render committed; ModelViewer registers no per-frame callback
DisplayedAngle == IF output.kind = "model" THEN output.rotation[2] ELSE 0

\* time passes to the next animation frame; no code of the components runs
Tick ==
  /\ now < MaxClock
  /\ now' = now + ClockStep
  /\ UNCHANGED <<toggles, debugVars, scriptVars>>
  /\ UNCHANGED <<variant, setErrorProp, streak, color, outfit, rotation, error, dirty, cache, hasScene, scene,
                 gui, output, props, failCalls, everFailed, cycle>>

\* createRoot(...).render(<App />) of a freshly loaded page: every useState
\* is back at its initial value, the loader cache is empty
Reload ==
  /\ failCalls < MaxFailCalls
  /\ color' = DefaultColor
  /\ outfit' = 1
  /\ rotation' = FALSE
  /\ error' = NULL
  /\ dirty' = TRUE
  /\ cache' = [p \in Paths |-> "none"]
  /\ scene' = [n \in Nodes |-> LoadedNode(scene[n].isMesh)]
  /\ gui' = GuiAfterUnmount(gui)
  /\ output' = Nothing
  /\ props' = NoProps
  /\ failCalls' = 0
  /\ everFailed' = FALSE
  /\ cycle' = 0
  /\ toggles' = 0
  /\ streak' = 0
  /\ UNCHANGED <<debugVars, scriptVars>>
  /\ UNCHANGED <<variant, setErrorProp, hasScene, now>>

Next ==
  \/ RenderGLB
  \/ RenderAct
  \/ RenderSTL
  \/ \E p \in Paths, ok \in BOOLEAN : Settle(p, ok)
  \/ \E c \in Colors : ColorInput(c)
  \/ \E n \in Outfits : OutfitButton(n)
  \/ RotateCheckbox
  \/ \E c \in Colors : GuiColor(c)
  \/ GuiRotation
  \/ \E raw \in RawSlider : GuiOutfit(raw)
  \/ Tick
  \/ Reload

Spec == Init /\ [][Next]_vars

TypeOK ==
  /\ variant \in {"glb", "act", "stl"}
  /\ setErrorProp \in BOOLEAN
  /\ streak \in 0..3
  /\ color \in Colors
  /\ rotation \in BOOLEAN
  /\ dirty \in BOOLEAN
  /\ cache \in [Paths -> {"none", "pending", "loaded", "failed"}]
  /\ gui \in 0..1
  /\ cycle \in 0..4

(***************************************************************************)
(* DebugScene under the App that renders it                                *)
(***************************************************************************)
MaxFrames == 12     \* frames of the render loop

Limb == 268435456   \* 2^28

\* the literal 0.01: the double 0x1.47ae147ae147bp-7 = 5764607523034235 * 2^-59
Step == <<21474836, 128849019>>

\* the exact sum of two values
AddExact(a, b) ==
  LET lo == a[2] + b[2] IN <<a[1] + b[1] + (lo \div Limb), lo % Limb>>

Less(a, b) == a[1] < b[1] \/ (a[1] = b[1] /\ a[2] < b[2])

\* the spacing of the doubles around v (53 significant bits), in units of
\* 2^-59, for v < 0.25
Ulp(v) ==
  IF v[1] < 33554432 THEN 1
  ELSE IF v[1] < 67108864 THEN 2
  ELSE IF v[1] < 134217728 THEN 4
  ELSE IF v[1] < 268435456 THEN 8
  ELSE 16

\* IEEE 754 round to nearest, ties to even
RoundNearestEven(v) ==
  LET u == Ulp(v)
      r == v[2] % u
      down == <<v[1], v[2] - r>>
      odd == (v[2] \div u) % 2 = 1
  IN IF 2 * r > u \/ (2 * r = u /\ odd) THEN AddExact(down, <<0, u>>) ELSE down

\* a + b of two Numbers
DoubleAdd(a, b) == RoundNearestEven(AddExact(a, b))

\* n * 0.01 without rounding
RECURSIVE TimesExact(_)
TimesExact(n) == IF n = 0 THEN Zero ELSE AddExact(TimesExact(n - 1), Step)

\* the Number 0.01 * n
DoubleTimes(n) == RoundNearestEven(TimesExact(n))

\* variant of FrameCallback that turns the box about one axis only
FrameCallbackXOnly(ref) ==
  IF ref.current
  THEN [ref EXCEPT !.rotation.x = DoubleAdd(@, Step)]
  ELSE ref

\* useFrame(() => { if (boxRef.current) { rotation.x += 0.01; rotation.y += 0.01 } })
FrameCallback(ref) ==
  IF ref.current
  THEN [ref EXCEPT !.rotation.x = DoubleAdd(@, Step), !.rotation.y = DoubleAdd(@, Step)]
  ELSE ref

\* the page is loaded, the render loop of the Canvas is about to start
InitDebug ==
  /\ AppIdle("debug")
  /\ DebugIdle
  /\ ScriptIdle

\* DebugScene() and its commit: a new mesh, boxRef.current points to it
RenderDebugScene ==
  /\ variant = "debug"
  /\ output = Nothing
  /\ output' = HotpinkGLB
  /\ boxRef' = [current |-> TRUE, rotation |-> [x |-> Zero, y |-> Zero]]
  /\ attachedFrames' = 0
  /\ UNCHANGED <<variant, setErrorProp, streak, color, outfit, rotation, error, dirty, cache,
                 hasScene, scene, gui, props, now, failCalls, everFailed, cycle, toggles>>
  /\ UNCHANGED <<frames, scriptVars>>

\* one frame of the render loop: it runs the callback DebugScene subscribed
UseFrame ==
  /\ variant = "debug"
  /\ frames < MaxFrames
  /\ frames' = frames + 1
  /\ boxRef' = FrameCallback(boxRef)
  /\ attachedFrames' = IF boxRef.current THEN attachedFrames + 1 ELSE attachedFrames
  /\ UNCHANGED <<appVars, scriptVars>>

\* the page is loaded again: the mesh is gone, nothing is mounted
ReloadDebug ==
  /\ variant = "debug"
  /\ output # Nothing
  /\ output' = Nothing
  /\ boxRef' = [current |-> FALSE, rotation |-> [x |-> Zero, y |-> Zero]]
  /\ attachedFrames' = 0
  /\ UNCHANGED <<variant, setErrorProp, streak, color, outfit, rotation, error, dirty, cache,
                 hasScene, scene, gui, props, now, failCalls, everFailed, cycle, toggles>>
  /\ UNCHANGED <<frames, scriptVars>>

NextDebug ==
  \/ RenderDebugScene
  \/ UseFrame
  \/ ReloadDebug

SpecDebug == InitDebug /\ [][NextDebug]_vars

(***************************************************************************)
(* act.sh, first script (lines 1-164)                                      *)
(***************************************************************************)
\* a position of the script; i is the index of the texture loop
At(l, k) == [step |-> l, i |-> k]

Running == -1

\* what npm install can leave of three-mesh-bvh in node_modules
Installs == {"0.8.0", "0.7.5", "none"}

\* run_command: a failing command logs one warning (and returns 1, which
\* no caller tests); the script has no set -e
WarningsAfter(w, ok) == IF ok THEN w ELSE w + 1

\* variant of BvhCheckPasses that accepts whatever is installed
BvhCheckSkipped(listStatus, inst) == TRUE

\* npm list three-mesh-bvh | grep "three-mesh-bvh@0.8.0" under set -o pipefail:
\* both npm list and grep have to succeed
BvhCheckPasses(listStatus, inst) == listStatus = 0 /\ inst = "0.8.0"

\* variant of TextureAfterVerify that generates the image for every file
TextureAfterVerifyAlways(f, convertOk) == IF convertOk THEN "fallback" ELSE f

\* if [ -f ... ]; then echo ...; else convert -size 512x512 ... ; fi
TextureAfterVerify(f, convertOk) ==
  IF f = "missing" THEN (IF convertOk THEN "fallback" ELSE "missing") ELSE f

\* the script is started in some checkout of the project
InitScript ==
  /\ \E v \in {"glb", "act", "stl"} : AppIdle(v)
  /\ DebugIdle
  /\ pc = At("cd", 0)
  /\ exitStatus = Running
  /\ textures \in [TextureNames -> {"missing", "original"}]
  /\ checked = [t \in TextureNames |-> 0]
  /\ warnings = 0
  /\ devStarted = FALSE
  /\ committed = FALSE
  /\ installed \in Installs
  /\ bvhVerified = "no"

\* cd /home/davis/Desktop/3dwebsite || { ...; exit 1; }
CdProject(ok) ==
  /\ pc = At("cd", 0)
  /\ pc' = IF ok THEN At("write", 0) ELSE At("exit", 0)
  /\ exitStatus' = IF ok THEN exitStatus ELSE 1
  /\ UNCHANGED <<appVars, debugVars, textures, checked, warnings, devStarted, committed,
                 installed, bvhVerified>>

\* cat > src/components/ModelViewer.jsx
WriteModelViewer ==
  /\ pc = At("write", 0)
  /\ variant' = "act"
  /\ pc' = At("audit", 0)
  /\ UNCHANGED <<setErrorProp, streak, color, outfit, rotation, error, dirty, cache, hasScene,
                 scene, gui, output, props, now, failCalls, everFailed, cycle, toggles>>
  /\ UNCHANGED <<debugVars, exitStatus, textures, checked, warnings, devStarted, committed,
                 installed, bvhVerified>>

\* run_command npm audit fix; if npm audit | grep -q "moderate"; then
AuditFix(ok, moderate) ==
  /\ pc = At("audit", 0)
  /\ warnings' = WarningsAfter(warnings, ok)
  /\ pc' = IF moderate THEN At("auditForce", 0) ELSE At("package", 0)
  /\ UNCHANGED <<appVars, debugVars, exitStatus, textures, checked, devStarted, committed,
                 installed, bvhVerified>>

\* run_command npm audit fix --force
AuditFixForce(ok) ==
  /\ pc = At("auditForce", 0)
  /\ warnings' = WarningsAfter(warnings, ok)
  /\ pc' = At("package", 0)
  /\ UNCHANGED <<appVars, debugVars, exitStatus, textures, checked, devStarted, committed,
                 installed, bvhVerified>>

\* cat > package.json; rm -rf node_modules package-lock.json;
\* run_command npm install --legacy-peer-deps
Reinstall(ok, inst) ==
  /\ pc = At("package", 0)
  /\ ok => inst = "0.8.0"
  /\ installed' = inst
  /\ warnings' = WarningsAfter(warnings, ok)
  /\ pc' = At("verify", 0)
  /\ UNCHANGED <<appVars, debugVars, exitStatus, textures, checked, devStarted, committed,
                 bvhVerified>>

\* if ! npm list three-mesh-bvh | grep ... ; then ...; exit 1; fi
VerifyBvh(listStatus) ==
  /\ pc = At("verify", 0)
  /\ LET passes == BvhCheckPasses(listStatus, installed) IN
       /\ bvhVerified' = IF passes THEN "passed" ELSE "failed"
       /\ pc' = IF passes THEN At("textures", 1) ELSE At("exit", 0)
       /\ exitStatus' = IF passes THEN exitStatus ELSE 1
  /\ UNCHANGED <<appVars, debugVars, textures, checked, warnings, devStarted, committed,
                 installed>>

\* one iteration of: for texture in fabric1.jpg fabric2.jpg leather.jpg
VerifyTexture(convertOk) ==
  /\ pc.step = "textures"
  /\ LET t == TextureFiles[pc.i] IN
       /\ checked' = [checked EXCEPT ![t] = @ + 1]
       /\ textures' = [textures EXCEPT ![t] = TextureAfterVerify(@, convertOk)]
  /\ pc' = IF pc.i < Len(TextureFiles) THEN At("textures", pc.i + 1) ELSE At("git", 0)
  /\ UNCHANGED <<appVars, debugVars, exitStatus, warnings, devStarted, committed, installed,
                 bvhVerified>>

\* if git rev-parse --git-dir; then run_command git add .
GitAdd(isRepo, ok) ==
  /\ pc = At("git", 0)
  /\ warnings' = IF isRepo THEN WarningsAfter(warnings, ok) ELSE warnings
  /\ pc' = IF isRepo THEN At("commit", 0) ELSE At("dev", 0)
  /\ UNCHANGED <<appVars, debugVars, exitStatus, textures, checked, devStarted, committed,
                 installed, bvhVerified>>

\* run_command git commit -m "..."
GitCommit(ok) ==
  /\ pc = At("commit", 0)
  /\ committed' = TRUE
  /\ warnings' = WarningsAfter(warnings, ok)
  /\ pc' = At("dev", 0)
  /\ UNCHANGED <<appVars, debugVars, exitStatus, textures, checked, devStarted, installed,
                 bvhVerified>>

\* npm run dev &
StartDev ==
  /\ pc = At("dev", 0)
  /\ devStarted' = TRUE
  /\ pc' = At("verifyApp", 0)
  /\ UNCHANGED <<appVars, debugVars, exitStatus, textures, checked, warnings, committed,
                 installed, bvhVerified>>

\* the closing echo lines
VerifyApp ==
  /\ pc = At("verifyApp", 0)
  /\ pc' = At("end", 0)
  /\ UNCHANGED <<appVars, debugVars, exitStatus, textures, checked, warnings, devStarted,
                 committed, installed, bvhVerified>>

NextScript ==
  \/ \E ok \in BOOLEAN : CdProject(ok)
  \/ WriteModelViewer
  \/ \E ok \in BOOLEAN, moderate \in BOOLEAN : AuditFix(ok, moderate)
  \/ \E ok \in BOOLEAN : AuditFixForce(ok)
  \/ \E ok \in BOOLEAN, inst \in Installs : Reinstall(ok, inst)
  \/ \E listStatus \in {0, 1} : VerifyBvh(listStatus)
  \/ \E convertOk \in BOOLEAN : VerifyTexture(convertOk)
  \/ \E isRepo \in BOOLEAN, ok \in BOOLEAN : GitAdd(isRepo, ok)
  \/ \E ok \in BOOLEAN : GitCommit(ok)
  \/ StartDev
  \/ VerifyApp

SpecScript == InitScript /\ [][NextScript]_vars

(***************************************************************************)
(* Properties                                                              *)
(***************************************************************************)
GLB == variant = "glb" /\ setErrorProp
STL == variant = "stl"
ShowsModel == output.kind = "model"
MeshNodes == {n \in Nodes : scene[n].isMesh}
NonEmpty(str) == str # NULL /\ str # "" /\ Len(str) > 0

\* C1 (as stated): after a load or traversal has thrown an Error, the error
\* callback has been invoked exactly once over all the renders since that
\* failure, with a non-empty message, and the fallback cube is shown.
C1_OnceOverAllRenders ==
  (GLB /\ everFailed) => (failCalls = 1 /\ NonEmpty(error) /\ output = HotpinkGLB)

\* C1 (amended): every single render whose try block throws invokes the
\* error callback exactly once, with a non-empty message, and returns the
\* 1x1x1 hotpink cube; re-renders after the failure invoke it again.
C1_OncePerThrowingRender ==
  (GLB /\ props.thrown.kind # "none") =>
    /\ props.calls = 1
    /\ NonEmpty(error)
    /\ error = "Failed to load model or textures: " \o props.thrown.message
    /\ output.kind = "cube" /\ output.args = <<1, 1, 1>> /\ output.color = "hotpink"

C1_Witness ==
  GLB /\ everFailed /\ props.thrown.kind = "error" /\ failCalls >= 2 /\ output = HotpinkGLB

\* C2: while an asset is pending (the hook threw its promise) the Suspense
\* fallback, the gray cube, is shown, the catch branch is not taken, the
\* error callback is not invoked and no hotpink cube is rendered.
C2_PendingShowsSuspenseFallback ==
  (GLB /\ props.thrown.kind = "promise") =>
    (output = GrayCube /\ props.calls = 0 /\ output # HotpinkGLB)

\* C3: when no load and no traversal has failed, the error message is null
\* once the model is rendered.
C3_NoErrorWithoutFailure ==
  (GLB /\ ShowsModel /\ ~everFailed) => error = NULL

\* C4: once the error message is a string, no step other than a remount
\* (page reload) sets it back to null.
C4_ErrorClearedOnlyByRemount ==
  [][(error # NULL /\ error' = NULL) => Reload]_vars

C4_Witness ==
  GLB /\ error # NULL /\ ShowsModel /\ ~dirty /\ color # DefaultColor /\ outfit # 1 /\ rotation

\* C5: after a successful render the map of the material of every mesh is
\* the texture loaded from the path of the rendered outfit:
\* 1 -> fabric1.jpg, 2 -> fabric2.jpg, 3 -> leather.jpg.
C5_TextureMatchesOutfit ==
  ShowsModel =>
    LET expected == CASE props.outfit = 1 -> "/assets/textures/fabric1.jpg"
                      [] props.outfit = 2 -> "/assets/textures/fabric2.jpg"
                      [] props.outfit = 3 -> "/assets/textures/leather.jpg"
                      [] OTHER -> "no such outfit"
    IN /\ GLB => \A n \in MeshNodes : scene[n].material.map = expected
       /\ STL => output.material.map = expected

C5_Witness ==
  GLB /\ ShowsModel /\ props.outfit = 3 /\ MeshNodes # {}
      /\ \A n \in MeshNodes : scene[n].material.map = Leather

\* C6: the outfit selection is always one of 1, 2, 3, so textures[outfit]
\* is never undefined.
C6_OutfitInRange ==
  /\ outfit \in {1, 2, 3}
  /\ TextureFor(outfit) # "undefined"
  /\ ShowsModel => props.outfit \in {1, 2, 3}

C6_Witness ==
  STL /\ gui > 0 /\ outfit = 3 /\ ShowsModel /\ output.material.map = Leather

\* C7: pressing the outfit buttons 1 -> 2 -> 3 -> 1 makes the rendered
\* texture follow fabric1 -> fabric2 -> leather -> fabric1, and no press
\* changes the tint or the rotation flag.
C7_OutfitCycle ==
  /\ [][(\E n \in Outfits : OutfitButton(n)) => (color' = color /\ rotation' = rotation)]_vars
  /\ [](GLB /\ cycle > 0 /\ StageShown =>
          /\ outfit = CycleSeq[cycle]
          /\ \A n \in MeshNodes :
               scene[n].material.map = <<Fabric1, Fabric2, Leather, Fabric1>>[cycle])

C7_Witness ==
  GLB /\ cycle = 4 /\ StageShown /\ rotation /\ color # DefaultColor /\ MeshNodes # {}
      /\ \A n \in MeshNodes : scene[n].material.map = Fabric1

\* C8: the color of the material constructed for each mesh by a successful
\* render equals the tint held by the root view, unchanged.
C8_MaterialColorIsTint ==
  ShowsModel =>
    /\ GLB => \A n \in MeshNodes : scene[n].material.color = props.color
    /\ STL => output.material.color = props.color
    /\ ~dirty => props.color = color

C8_Witness ==
  GLB /\ ShowsModel /\ ~dirty /\ color = "#00ff00" /\ MeshNodes # {}
      /\ \A n \in MeshNodes : scene[n].material.color = "#00ff00"

\* C9: with the rotation flag false the Y angle of the group is 0, and the
\* X and Z angles are 0 in every case.
C9_NoRotationAngleZero ==
  ShowsModel =>
    /\ output.rotation[1] = 0
    /\ output.rotation[3] = 0
    /\ ~props.rotation => output.rotation[2] = 0

C9_Witness ==
  GLB /\ ShowsModel /\ ~props.rotation /\ props.at > 0 /\ props.color # DefaultColor
      /\ props.outfit # 1

\* C10: with the rotation flag true the group angle is (t_ms * 0.0005) mod 2 pi
\* of the clock value t_ms read by the render, and lies in [0, 2 pi).
C10_AngleIsClockModTwoPi ==
  (GLB /\ ShowsModel /\ props.rotation) =>
    LET a == output.rotation[2]
        x == props.at * 500
    IN /\ 0 <= a
       /\ a < 6283185
       /\ \E k \in 0..(x \div 6283185) : x = a + k * 6283185

C10_Witness ==
  GLB /\ ShowsModel /\ props.rotation /\ props.at * 500 >= 6283185
      /\ output.rotation[2] > 0

\* the variants whose ModelViewer loads the glTF scene and walks it
WalksScene == variant \in {"glb", "act"}

\* C11: while the rotation flag is true and nothing else changes, the angle
\* of the displayed group follows the clock from frame to frame: at the frame
\* drawn at clock value now the angle is (now * 0.0005) mod 2 pi.
C11_AngleFollowsClock ==
  (WalksScene /\ ShowsModel /\ props.rotation /\ rotation /\ ~dirty) =>
    DisplayedAngle = (now * 500) % 6283185

\* C12: every exception of the load or the traversal is contained: the
\* component returns the placeholder cube, nothing is thrown past it, and the
\* callback is invoked only if one was passed.
C12_ExceptionContained ==
  (WalksScene /\ props.thrown.kind # "none") =>
    /\ output # Crashed
    /\ output.kind = "cube" /\ output.args = <<1, 1, 1>>
    /\ props.calls = (IF variant = "glb" /\ setErrorProp THEN 1 ELSE 0)

C14_TraverseReplacesMeshMaterials ==
  (WalksScene /\ ShowsModel) =>
    \A n \in Nodes :
      IF scene[n].isMesh
        THEN scene[n] =
               [isMesh |-> TRUE,
                material |-> [color |-> props.color,
                              map |-> <<"/assets/textures/fabric1.jpg",
                                        "/assets/textures/fabric2.jpg",
                                        "/assets/textures/leather.jpg">>[props.outfit],
                              roughness |-> 4, metalness |-> 1],
                castShadow |-> TRUE, receiveShadow |-> TRUE]
        ELSE scene[n] =
               [isMesh |-> FALSE, material |-> NoMaterial,
                castShadow |-> FALSE, receiveShadow |-> FALSE]

C14_Witness ==
  /\ GLB /\ ShowsModel /\ props.color # DefaultColor /\ props.outfit = 2
  /\ MeshNodes # {} /\ MeshNodes # Nodes
  /\ \A n \in MeshNodes : scene[n].castShadow /\ scene[n].material.roughness = 4

\* C15: in the stl variant the settings panel is created by the mounting
\* render only and is gone after unmount: at most one panel exists, exactly
\* one while the component is mounted, and no re-render creates another.
C15_OnePanelPerMount ==
  /\ [](STL => (gui <= 1 /\ (gui = 1 <=> Mounted)))
  /\ [][(STL /\ gui' > gui) => (output = Nothing /\ gui' = 1)]_vars

C15_Witness ==
  STL /\ gui = 1 /\ ShowsModel /\ ~dirty /\ streak = 1
      /\ color # DefaultColor /\ rotation /\ outfit = 2

\* C16: after user actions and a successful render, the material of every
\* mesh of the shared scene has the current tint and the texture of the
\* current outfit; none keeps the material of an earlier render.
C16_MaterialsReflectCurrentState ==
  (WalksScene /\ ShowsModel /\ ~dirty) =>
    \A n \in MeshNodes :
      /\ scene[n].material.color = color
      /\ scene[n].material.map = CASE outfit = 1 -> Fabric1
                                   [] outfit = 2 -> Fabric2
                                   [] outfit = 3 -> Leather
                                   [] OTHER -> "undefined"

C16_Witness ==
  /\ GLB /\ cycle = 3 /\ StageShown /\ MeshNodes # {}
  /\ \A n \in MeshNodes : scene[n].material.map = Leather /\ scene[n].material.color = color

\* C17: the color input changes only the tint, the checkbox only the
\* rotation flag (to its checked value, the negation of the shown one), an
\* outfit button only the outfit; none of them changes the error message.
C17_ControlsChangeOwnState ==
  [][/\ (\E c \in Colors : ColorInput(c)) =>
          (color' # color /\ UNCHANGED <<outfit, rotation, error>>)
     /\ (\E n \in Outfits : OutfitButton(n)) =>
          (outfit' \in {1, 2, 3} /\ UNCHANGED <<color, rotation, error>>)
     /\ RotateCheckbox =>
          (rotation' = ~rotation /\ UNCHANGED <<color, outfit, error>>)]_vars

C17_Witness ==
  GLB /\ error # NULL /\ dirty /\ streak = 0 /\ color # DefaultColor /\ outfit = 2 /\ rotation

\* C18: setError called from the render cannot loop: a render that repeats
\* the failure of the previous one sets the same message and schedules
\* nothing, so at most three renders follow one user input or page load
\* (pending, then the rejected load, then its repetition).
C18_RenderLoopBounded ==
  /\ [](streak <= 3)
  /\ [][(RenderGLB /\ props.thrown.kind # "none"
           /\ Thrown(variant, cache, hasScene) = props.thrown) => ~dirty']_vars

C18_Witness ==
  GLB /\ everFailed /\ streak = 3 /\ failCalls = 2 /\ ~dirty /\ error # NULL

\* C19: on mount the tint is '#ff6b6b', the outfit 1, the rotation flag false
\* and the error null, so the first successful render shows fabric1 with tint
\* '#ff6b6b', group angle 0 and no error text.
C19_FirstRenderShowsDefaults ==
  /\ (color = "#ff6b6b" /\ outfit = 1 /\ rotation = FALSE /\ error = NULL)
  /\ [][(output.kind # "model" /\ output'.kind = "model") =>
          /\ props'.color = "#ff6b6b"
          /\ props'.outfit = 1
          /\ output'.rotation[2] = 0
          /\ error' = NULL]_vars

\* C20: the hotpink cube is shown only after a load or traversal exception,
\* never in a run without such an error, and the gray cube only while an
\* asset is pending, where it is the placeholder shown.
C20_PlaceholdersDistinguished ==
  /\ (GLB /\ output.kind = "cube" /\ output.color = "hotpink") => everFailed
  /\ (GLB /\ output.kind = "cube" /\ output.color = "gray") => props.thrown.kind = "promise"
  /\ (GLB /\ Mounted /\ props.thrown.kind = "promise" /\ ~everFailed) =>
       output.color = "gray"

\* C21: in the stl variant the Y angle of the group is pi with the rotation
\* flag true and 0 with it false, whatever the clock reads: a re-render or a
\* later frame with the same flag leaves the angle as it was, and after an
\* even number of clicks on the checkbox the angle is the original 0 again.
C21_TwoOrientations ==
  /\ [](STL /\ ShowsModel =>
         output.rotation[2] = (IF props.rotation THEN 3141592 ELSE 0))
  /\ [](STL /\ ShowsModel /\ ~dirty =>
         output.rotation[2] = (IF toggles = 1 THEN 3141592 ELSE 0))
  /\ [][(STL /\ ShowsModel /\ ShowsModel' /\ props'.rotation = props.rotation) =>
          output'.rotation[2] = output.rotation[2]]_vars

C21_Witness ==
  STL /\ ShowsModel /\ ~dirty /\ toggles = 2 /\ ~rotation /\ output.rotation[2] = 0
      /\ props.at > 0

\* |a - b| <= d, d in units of 2^-59
Near(a, b, d) == ~Less(AddExact(a, <<0, d>>), b) /\ ~Less(AddExact(b, <<0, d>>), a)

\* C22 (as stated): after any number of frames rotation.x equals rotation.y
\* and both equal 0.01 times the number of frames run with the reference
\* attached.
C22_AnglesAreStepTimesFrames ==
  /\ boxRef.rotation.x = boxRef.rotation.y
  /\ boxRef.rotation.x = DoubleTimes(attachedFrames)

\* C22 (amended): rotation.x equals rotation.y after any number of frames;
\* both are the sum of one 0.01 per frame run with the reference attached,
\* which is 0.01 times that number up to the rounding of each addition (half
\* a unit in the last place, at most 8 * 2^-59 here) and exactly for the
\* first five frames; a frame without reference changes nothing, and the
\* angle never decreases (no wrap-around).
C22_AnglesEqualUpToRounding ==
  /\ [](boxRef.rotation.x = boxRef.rotation.y)
  /\ [](Near(boxRef.rotation.x, TimesExact(attachedFrames), 8 * attachedFrames))
  /\ [](attachedFrames <= 5 => boxRef.rotation.x = DoubleTimes(attachedFrames))
  /\ [][(~boxRef.current /\ ~boxRef'.current) => boxRef' = boxRef]_vars
  /\ [][(boxRef.current /\ boxRef'.current) =>
          ~Less(boxRef'.rotation.x, boxRef.rotation.x)]_vars

C22_Witness ==
  /\ variant = "debug" /\ boxRef.current /\ attachedFrames = 6 /\ frames > 6
  /\ boxRef.rotation.x = boxRef.rotation.y
  /\ boxRef.rotation.x # DoubleTimes(6)

\* C23: the development server is started only after the three-mesh-bvh
\* check has passed; when npm list does not report three-mesh-bvh@0.8.0 the
\* script exits with status 1 before the texture verification, the git
\* commit and npm run dev; a failing command under run_command logs a
\* warning and the script goes on.
C23_DevServerAfterCheck ==
  /\ [](devStarted => (bvhVerified = "passed" /\ installed = "0.8.0"))
  /\ [](bvhVerified = "failed" =>
         /\ exitStatus = 1 /\ pc.step = "exit"
         /\ ~devStarted /\ ~committed
         /\ \A t \in TextureNames : checked[t] = 0)
  /\ [][(pc.step = "verify" /\ installed # "0.8.0") =>
          (exitStatus' = 1 /\ bvhVerified' = "failed")]_vars
  /\ [][warnings' > warnings => (exitStatus' = -1 /\ pc'.step # "exit")]_vars

C23_Witness ==
  devStarted /\ bvhVerified = "passed" /\ warnings >= 2 /\ committed

\* C24: the texture loop looks at each of the three files exactly once; a
\* file that exists is never changed, and the only change the loop makes is
\* to create the fallback image of the missing file it is looking at.
C24_TexturesCheckedOnce ==
  /\ [](\A t \in TextureNames : checked[t] <= 1)
  /\ [](pc.step \in {"git", "commit", "dev", "verifyApp", "end"} =>
         \A t \in TextureNames : checked[t] = 1)
  /\ [][\A t \in TextureNames :
          textures'[t] # textures[t] =>
            /\ textures[t] = "missing" /\ textures'[t] = "fallback"
            /\ pc.step = "textures" /\ TextureFiles[pc.i] = t
            /\ checked'[t] = checked[t] + 1]_vars

C24_Witness ==
  /\ pc.step = "git"
  /\ \A t \in TextureNames : checked[t] = 1
  /\ textures["fabric1.jpg"] = "original"
  /\ textures["fabric2.jpg"] = "fallback"
  /\ textures["leather.jpg"] = "missing"

====
